---- MODULE Spec2Model ----
(***************************************************************************)
(* RecipeHolder: the document store (app/storage.py), the index           *)
(* repository and the reconciler (app/search.py, app/models.py) and the   *)
(* add flow of app/main.py, as a state machine.                           *)
(*                                                                         *)
(* Text is a sequence of one-character strings.  Optional integers use    *)
(* None (-1) for Python's None / SQL NULL.  A dictionary is a record plus *)
(* a field `keys` naming the keys that are present.                       *)
(***************************************************************************)
EXTENDS Integers, Sequences, FiniteSets, TLC

VARIABLES
    files,        \* recipes directory: file stem -> document (<stem>.md)
    recipes,      \* committed rows of table recipes
    tags,         \* committed rows of table tags
    recipe_tags,  \* committed rows of table recipe_tags: <<recipe_id, tag_id>>
    clock,        \* datetime.utcnow(), in seconds
    last,         \* outcome of the most recent call, with the state it started from
    lastSave,     \* file stem -> the recipe_data of the latest save_recipe not deleted since
    nOps,         \* number of calls made so far
    temps,        \* recipes directory: file stem -> content of <stem>.tmp
    saving,       \* process -> the save_recipe call it is in, step by step
    rebuilding    \* the rebuild_index pass that is under way, step by step

vars ==
    <<files, recipes, tags, recipe_tags, clock, last, lastSave, nOps, temps, saving,
      rebuilding>>

-----------------------------------------------------------------------------
(* Bounds of the exploration *)

MaxOps == 4
MaxClock == 2
MaxLen == 4       \* length of the texts tried on the pure functions

-----------------------------------------------------------------------------
(* Characters and text *)

None == -1

\* the characters of the model, in code point order
Alphabet ==
    <<" ", "!", "-", ".", "/", "0", "1", "2", "3", "4", "5", "6", "7", "8", "9",
      "A", "B", "C", "H", "M", "R", "U", "Y", "\\", "_",
      "a", "b", "c", "d", "e", "f", "h", "i", "k", "m", "n", "o", "p", "r", "s", "t",
      "u", "w", "x", "y">>

CharRank(c) == CHOOSE i \in 1..Len(Alphabet) : Alphabet[i] = c

IsAlnum(c) == c \in {"0", "1", "2", "3", "4", "5", "6", "7", "8", "9",
                     "A", "B", "C", "H", "M", "R", "U", "Y",
                     "a", "b", "c", "d", "e", "f", "h", "i", "k", "m", "n", "o", "p", "r",
                     "s", "t", "u", "w", "x", "y"}

\* \w of Python's re
IsWord(c) == IsAlnum(c) \/ c = "_"

\* \s of Python's re
IsSpace(c) == c = " "

LowerChar(c) ==
    CASE c = "A" -> "a" [] c = "B" -> "b" [] c = "C" -> "c" [] c = "H" -> "h"
      [] c = "M" -> "m" [] c = "R" -> "r" [] c = "U" -> "u" [] c = "Y" -> "y"
      [] OTHER -> c

Lower(s) == [i \in 1..Len(s) |-> LowerChar(s[i])]

Min(a, b) == IF a < b THEN a ELSE b

\* the part of s after the last occurrence of c: s.split(c)[-1]
AfterLast(s, c) ==
    LET hits == {i \in 1..Len(s) : s[i] = c}
        from == IF hits = {} THEN 1
                ELSE 1 + (CHOOSE i \in hits : \A j \in hits : j <= i)
    IN SubSeq(s, from, Len(s))

ReplaceChar(s, from, to) == [i \in 1..Len(s) |-> IF s[i] = from THEN to ELSE s[i]]

\* re.sub(r'-+', '-', s)
RECURSIVE CollapseHyphens(_)
CollapseHyphens(s) ==
    IF Len(s) <= 1 THEN s
    ELSE IF s[1] = "-" /\ s[2] = "-" THEN CollapseHyphens(Tail(s))
    ELSE <<s[1]>> \o CollapseHyphens(Tail(s))

\* str.strip(chars)
RECURSIVE StripLeft(_, _)
StripLeft(s, chars) ==
    IF s # <<>> /\ s[1] \in chars THEN StripLeft(Tail(s), chars) ELSE s

RECURSIVE StripRight(_, _)
StripRight(s, chars) ==
    IF s # <<>> /\ s[Len(s)] \in chars
    THEN StripRight(SubSeq(s, 1, Len(s) - 1), chars) ELSE s

Strip(s, chars) == StripRight(StripLeft(s, chars), chars)

\* mutant of sanitize_filename: leading and trailing hyphens and dots are kept
sanitize_filename_NoStrip(filename) ==
    LET s1 == AfterLast(AfterLast(filename, "/"), "\\")
        s2 == SelectSeq(s1, LAMBDA c : IsWord(c) \/ IsSpace(c) \/ c = "-" \/ c = ".")
        s3 == ReplaceChar(s2, " ", "-")
    IN CollapseHyphens(s3)

\* app/utils.py sanitize_filename
sanitize_filename(filename) ==
    LET s1 == AfterLast(AfterLast(filename, "/"), "\\")
        s2 == SelectSeq(s1, LAMBDA c : IsWord(c) \/ IsSpace(c) \/ c = "-" \/ c = ".")
        s3 == ReplaceChar(s2, " ", "-")
        s4 == CollapseHyphens(s3)
    IN Strip(s4, {"-", "."})

max_length == 200

\* app/utils.py slugify: python-slugify lowercases, turns every run of
\* characters that are not alphanumeric into one hyphen, trims hyphens and
\* cuts the result to max_length
slugify(text) ==
    LET s1 == Lower(text)
        s2 == [i \in 1..Len(s1) |-> IF IsAlnum(s1[i]) THEN s1[i] ELSE "-"]
        s3 == Strip(CollapseHyphens(s2), {"-"})
    IN Strip(SubSeq(s3, 1, Min(Len(s3), max_length)), {"-"})

\* datetime.utcnow().strftime('%Y%m%d%H%M%S'): fourteen digits, the last one
\* being the second of the clock
Timestamp(now) ==
    <<"2", "0", "2", "6", "0", "1", "0", "2", "1", "0", "0", "0", "0">>
        \o <<Alphabet[6 + now]>>

\* lexicographic order of two texts by code point
RECURSIVE LexLess(_, _)
LexLess(s, t) ==
    IF t = <<>> THEN FALSE
    ELSE IF s = <<>> THEN TRUE
    ELSE IF s[1] = t[1] THEN LexLess(Tail(s), Tail(t))
    ELSE CharRank(s[1]) < CharRank(t[1])

FileName(stem) == stem \o <<".", "m", "d">>

\* sorted(paths): the stems ordered by their file names
RECURSIVE SortedStems(_)
SortedStems(S) ==
    IF S = {} THEN <<>>
    ELSE LET m == CHOOSE x \in S :
                    \A y \in S \ {x} : LexLess(FileName(x), FileName(y))
         IN <<m>> \o SortedStems(S \ {m})

Range(s) == {s[i] : i \in 1..Len(s)}

Truthy(n) == n # None /\ n # 0

-----------------------------------------------------------------------------
(* Dictionaries: recipe_data, the YAML header, the result of load_recipe *)

\* dict.get(key, default)
Get(d, key, default) == IF key \in d.keys THEN d[key] ELSE default

\* "if value:" of Python for an integer, a text or a list
TruthyInt(d, key) == key \in d.keys /\ Truthy(d[key])
TruthyText(d, key) == key \in d.keys /\ d[key] # <<>>

UntitledRecipe == <<"U", "n", "t", "i", "t", "l", "e", "d", " ", "R", "e", "c", "i", "p", "e">>
Untitled == <<"U", "n", "t", "i", "t", "l", "e", "d">>

-----------------------------------------------------------------------------
(* Document store: app/storage.py *)

max_recipe_size == 1048576

\* RecipeStorage._create_markdown: the header (metadata) and the body's
\* description paragraph; nbytes is the length of the rendered text
CreateHeader(rd, now) ==
    [keys |-> {"title", "source_url", "created_at", "updated_at"}
                \cup {k \in {"prep_time", "cook_time", "total_time"} : TruthyInt(rd, k)}
                \cup {k \in {"servings", "tags", "author"} : TruthyText(rd, k)},
     title |-> Get(rd, "title", UntitledRecipe),
     source_url |-> Get(rd, "source_url", ""),
     created_at |-> IF TruthyInt(rd, "scraped_at") THEN rd.scraped_at ELSE now,
     updated_at |-> now,
     prep_time |-> IF TruthyInt(rd, "prep_time") THEN rd.prep_time ELSE None,
     cook_time |-> IF TruthyInt(rd, "cook_time") THEN rd.cook_time ELSE None,
     total_time |-> IF TruthyInt(rd, "total_time") THEN rd.total_time ELSE None,
     servings |-> IF TruthyText(rd, "servings") THEN rd.servings ELSE <<>>,
     tags |-> IF TruthyText(rd, "tags") THEN rd.tags ELSE <<>>,
     author |-> IF TruthyText(rd, "author") THEN rd.author ELSE <<>>]

_create_markdown(rd, now) ==
    [header |-> CreateHeader(rd, now),
     description |-> Strip(Get(rd, "description", <<>>), {" "}),
     nbytes |-> rd.nbytes]

\* a file that was created or truncated and not written yet
EmptyDoc ==
    [header |-> [keys |-> {}, title |-> <<>>, source_url |-> "", created_at |-> None,
                 updated_at |-> None, prep_time |-> None, cook_time |-> None,
                 total_time |-> None, servings |-> <<>>, tags |-> <<>>, author |-> <<>>],
     description |-> <<>>,
     nbytes |-> 0]

\* RecipeStorage.get_recipe_filepath: recipes_path / "<sanitized>.md",
\* represented by the file's stem
get_recipe_filepath(slug) == sanitize_filename(slug)

\* mutant of save_recipe: the slug is not checked, a missing one counts as ''
save_recipe_NoSlugCheck(fs, rd, now) ==
    LET stem == sanitize_filename(Get(rd, "slug", <<>>))
        doc == _create_markdown(rd, now)
    IN [ok |-> TRUE, err |-> "",
        files |-> [s \in DOMAIN fs \cup {stem} |-> IF s = stem THEN doc ELSE fs[s]],
        stem |-> stem]

\* mutant of save_recipe: an existing file is kept instead of replaced
save_recipe_KeepsExisting(fs, rd, now) ==
    IF ~TruthyText(rd, "slug")
    THEN [ok |-> FALSE, err |-> "StorageError: slug", files |-> fs, stem |-> <<>>]
    ELSE LET stem == sanitize_filename(rd.slug)
             doc == _create_markdown(rd, now)
         IN [ok |-> TRUE, err |-> "",
             files |-> [s \in DOMAIN fs \cup {stem} |-> IF s \in DOMAIN fs THEN fs[s] ELSE doc],
             stem |-> stem]

\* RecipeStorage.save_recipe: the temporary file is written and renamed onto
\* the target in one step here
save_recipe(fs, rd, now) ==
    IF ~TruthyText(rd, "slug")
    THEN [ok |-> FALSE, err |-> "StorageError: slug", files |-> fs, stem |-> <<>>]
    ELSE LET stem == sanitize_filename(rd.slug)
             doc == _create_markdown(rd, now)
         IN [ok |-> TRUE, err |-> "",
             files |-> [s \in DOMAIN fs \cup {stem} |-> IF s = stem THEN doc ELSE fs[s]],
             stem |-> stem]

\* mutant of load_recipe: a file of exactly max_recipe_size bytes is refused
load_recipe_CeilingExcluded(fs, slug) ==
    LET stem == sanitize_filename(slug) IN
    IF stem \notin DOMAIN fs
    THEN [ok |-> FALSE, err |-> "StorageError: not found"]
    ELSE IF fs[stem].nbytes >= max_recipe_size
    THEN [ok |-> FALSE, err |-> "StorageError: too large"]
    ELSE LET h == fs[stem].header IN
         [ok |-> TRUE, err |-> "",
          keys |-> {"slug", "filepath", "content"} \cup h.keys,
          slug |-> slug,
          filepath |-> stem,
          content |-> fs[stem].description,
          title |-> h.title, source_url |-> h.source_url,
          created_at |-> h.created_at, updated_at |-> h.updated_at,
          prep_time |-> h.prep_time, cook_time |-> h.cook_time,
          total_time |-> h.total_time, servings |-> h.servings,
          tags |-> h.tags, author |-> h.author]

\* RecipeStorage.load_recipe
load_recipe(fs, slug) ==
    LET stem == sanitize_filename(slug) IN
    IF stem \notin DOMAIN fs
    THEN [ok |-> FALSE, err |-> "StorageError: not found"]
    ELSE IF fs[stem].nbytes > max_recipe_size
    THEN [ok |-> FALSE, err |-> "StorageError: too large"]
    ELSE LET h == fs[stem].header IN
         [ok |-> TRUE, err |-> "",
          keys |-> {"slug", "filepath", "content"} \cup h.keys,
          slug |-> slug,
          filepath |-> stem,
          content |-> fs[stem].description,
          title |-> h.title, source_url |-> h.source_url,
          created_at |-> h.created_at, updated_at |-> h.updated_at,
          prep_time |-> h.prep_time, cook_time |-> h.cook_time,
          total_time |-> h.total_time, servings |-> h.servings,
          tags |-> h.tags, author |-> h.author]

\* RecipeStorage.delete_recipe
delete_recipe(fs, slug) ==
    LET stem == sanitize_filename(slug) IN
    IF stem \notin DOMAIN fs
    THEN [ok |-> FALSE, files |-> fs]
    ELSE [ok |-> TRUE, files |-> [s \in DOMAIN fs \ {stem} |-> fs[s]]]

\* RecipeStorage.recipe_exists
recipe_exists(fs, slug) == sanitize_filename(slug) \in DOMAIN fs

\* Path.stem of "<stem>.md": a file named ".md" has no suffix and is its own stem
PathStem(stem) == IF stem = <<>> THEN FileName(stem) ELSE stem

\* RecipeStorage.list_recipes: the stems of *.md, in the order of the sorted paths
list_recipes(fs) ==
    LET sorted == SortedStems(DOMAIN fs)
    IN [i \in 1..Len(sorted) |-> PathStem(sorted[i])]

-----------------------------------------------------------------------------
(* Index repository: app/models.py, app/database.py, app/search.py *)

MaxOf(S) == IF S = {} THEN 0 ELSE CHOOSE m \in S : \A x \in S : x <= m

NoDuplicates(s) == \A i, j \in 1..Len(s) : i # j => s[i] # s[j]

\* a reference to an object held by a session: a committed row, or the k-th
\* object of its class added (db.add) in this session and not flushed yet
OldRef(id) == <<"old", id>>
NewRef(k) == <<"new", k>>

\* nothing pending in a fresh Session
EmptySession ==
    [ins |-> <<>>,      \* Recipe objects added, in the order of db.add
     upd |-> {},        \* committed rows modified in place (their new values)
     del |-> {},        \* ids of the Recipe objects passed to db.delete
     newTags |-> <<>>,  \* names of the Tag objects added, in the order of db.add
     links |-> {}]      \* assignments to recipe.tags: <<recipe reference, list of Tag references>>

\* RecipeSearchService._get_or_create_tags. SessionLocal has autoflush=False,
\* so the SELECT sees the committed rows only, never a Tag that is pending.
RECURSIVE GetOrCreateFrom(_, _, _, _)
GetOrCreateFrom(tag_names, i, tagRows, acc) ==
    IF i > Len(tag_names) THEN acc
    ELSE LET name == Strip(Lower(tag_names[i]), {" "}) IN
         IF name = <<>> THEN GetOrCreateFrom(tag_names, i + 1, tagRows, acc)
         ELSE IF \E t \in tagRows : t.name = name
         THEN LET t == CHOOSE t \in tagRows : t.name = name
              IN GetOrCreateFrom(tag_names, i + 1, tagRows,
                    [acc EXCEPT !.refs = Append(@, OldRef(t.id))])
         ELSE GetOrCreateFrom(tag_names, i + 1, tagRows,
                    [refs |-> Append(acc.refs, NewRef(Len(acc.newTags) + 1)),
                     newTags |-> Append(acc.newTags, name)])

_get_or_create_tags(tag_names, tagRows, newTags) ==
    GetOrCreateFrom(tag_names, 1, tagRows, [refs |-> <<>>, newTags |-> newTags])

\* Session.commit: the flush writes the INSERTs and UPDATEs first and the
\* DELETEs last. A violated constraint (a unique column, the primary key of
\* recipe_tags) fails the flush and nothing is committed.
\* Deleting a Recipe cascades to its Tag objects (models.py: cascade="all, delete"),
\* and a deleted Tag takes its recipe_tags rows with it (ondelete="CASCADE").
Commit(rs, ts, rts, sess) ==
    LET tagBase == MaxOf({t.id : t \in ts})
        tagId(ref) == IF ref[1] = "old" THEN ref[2] ELSE tagBase + ref[2]
        insTags == {[id |-> tagBase + k, name |-> sess.newTags[k]] :
                        k \in 1..Len(sess.newTags)}
        tagsOk == /\ NoDuplicates(sess.newTags)
                  /\ \A k \in 1..Len(sess.newTags) :
                        \A t \in ts : t.name # sess.newTags[k]
        recBase == MaxOf({r.id : r \in rs})
        recId(ref) == IF ref[1] = "old" THEN ref[2] ELSE recBase + ref[2]
        kept == {r \in rs : \A u \in sess.upd : u.id # r.id} \cup sess.upd
        insRows == {[sess.ins[k] EXCEPT !.id = recBase + k] : k \in 1..Len(sess.ins)}
        allRows == kept \cup insRows
        recsOk == /\ \A r \in insRows : \A q \in allRows : q.id # r.id =>
                        /\ q.slug # r.slug
                        /\ q.filepath # r.filepath
                        /\ q.source_url # r.source_url
        linksOk == \A l \in sess.links : NoDuplicates(l[2])
        relinked == {recId(l[1]) : l \in sess.links}
        newLinks == UNION {{<<recId(l[1]), tagId(l[2][i])>> : i \in 1..Len(l[2])} :
                        l \in sess.links}
        rtsSaved == {p \in rts : p[1] \notin relinked} \cup newLinks
        delTags == {p[2] : p \in {q \in rts : q[1] \in sess.del}}
    IN IF tagsOk /\ recsOk /\ linksOk
       THEN [ok |-> TRUE,
             recipes |-> {r \in allRows : r.id \notin sess.del},
             tags |-> {t \in ts \cup insTags : t.id \notin delTags},
             recipe_tags |-> {p \in rtsSaved : p[1] \notin sess.del /\ p[2] \notin delTags}]
       ELSE [ok |-> FALSE, recipes |-> rs, tags |-> ts, recipe_tags |-> rts]

\* mutant of get_recipe_by_url: the lookup compares the newest record only
get_recipe_by_url_NewestOnly(rs, url) ==
    {r \in rs : r.source_url = url /\ \A q \in rs : q.id <= r.id}

\* RecipeSearchService.get_recipe_by_url / get_recipe_by_slug
get_recipe_by_url(rs, url) == {r \in rs : r.source_url = url}
get_recipe_by_slug(rs, slug) == {r \in rs : r.slug = slug}

\* the tag names a record carries (Recipe.tags)
TagsOf(ts, rts, id) == {t.name : t \in {x \in ts : <<id, x.id>> \in rts}}

\* RecipeSearchService.add_recipe_to_index
add_recipe_to_index(rs, ts, rts, rd, now) ==
    LET unchanged == [recipes |-> rs, tags |-> ts, recipe_tags |-> rts] IN
    IF get_recipe_by_url(rs, rd.source_url) # {}
    THEN [ok |-> FALSE, err |-> "SearchError: already exists",
          slug |-> (CHOOSE r \in get_recipe_by_url(rs, rd.source_url) : TRUE).slug,
          db |-> unchanged]
    ELSE LET slug == IF get_recipe_by_slug(rs, rd.slug) # {}
                     THEN rd.slug \o <<"-">> \o Timestamp(now)
                     ELSE rd.slug
             row == [id |-> 0,
                     title |-> rd.title,
                     slug |-> slug,
                     filepath |-> get_recipe_filepath(slug),
                     source_url |-> rd.source_url,
                     description |-> Get(rd, "description", <<>>),
                     servings |-> Get(rd, "servings", <<>>),
                     prep_time |-> Get(rd, "prep_time", None),
                     cook_time |-> Get(rd, "cook_time", None),
                     total_time |-> Get(rd, "total_time", None),
                     created_at |-> now,
                     updated_at |-> now]
             tagList == Get(rd, "tags", <<>>)
             got == _get_or_create_tags(tagList, ts, <<>>)
             sess == [EmptySession EXCEPT
                        !.ins = <<row>>,
                        !.newTags = IF tagList # <<>> THEN got.newTags ELSE <<>>,
                        !.links = IF tagList # <<>> THEN {<<NewRef(1), got.refs>>} ELSE {}]
             done == Commit(rs, ts, rts, sess)
         IN IF done.ok
            THEN [ok |-> TRUE, err |-> "", slug |-> slug,
                  db |-> [recipes |-> done.recipes, tags |-> done.tags,
                          recipe_tags |-> done.recipe_tags]]
            ELSE [ok |-> FALSE, err |-> "SearchError: failed to add", slug |-> slug,
                  db |-> unchanged]

NoStats == [total_files |-> 0, indexed |-> 0, updated |-> 0, errors |-> 0, orphaned |-> 0]

\* the snapshot of line 354: get_all_recipes(limit=10000) keyed by slug; the
\* tables of the model stay far below the limit
existing_recipes(rs) == rs

\* mutant of UpdateExisting: the processed record stays in the snapshot
\* (the "del existing_recipes[slug]" of line 380 forgotten)
UpdateExisting_StaysInSnapshot(st, row, data, ts, now) ==
    [st EXCEPT
       !.sess.upd = @ \cup {[row EXCEPT !.title = Get(data, "title", row.title),
                                        !.updated_at = now]},
       !.stats.updated = @ + 1]

\* RecipeSearchService.rebuild_index, lines 363-380: overwrite the record of a
\* document that is in the snapshot
UpdateExisting(st, row, data, ts, now) ==
    LET tagList == Get(data, "tags", <<>>)
        got == _get_or_create_tags(tagList, ts, st.sess.newTags)
        new == [row EXCEPT
                  !.title = Get(data, "title", row.title),
                  !.description = Get(data, "description", <<>>),
                  !.servings = Get(data, "servings", <<>>),
                  !.prep_time = Get(data, "prep_time", None),
                  !.cook_time = Get(data, "cook_time", None),
                  !.total_time = Get(data, "total_time", None),
                  !.updated_at = now]
    IN [st EXCEPT
          !.sess.upd = @ \cup {new},
          !.sess.newTags = IF tagList # <<>> THEN got.newTags ELSE @,
          !.sess.links = IF tagList # <<>> THEN @ \cup {<<OldRef(row.id), got.refs>>} ELSE @,
          !.stats.updated = @ + 1,
          !.existing = @ \ {row}]

\* mutant of InsertNew: the new record is counted and never added to the
\* session (the db.add of line 400 forgotten)
InsertNew_NotAdded(st, slug, data, ts, now) ==
    [st EXCEPT !.stats.indexed = @ + 1]

\* RecipeSearchService.rebuild_index, lines 381-401: a new record for a
\* document that is not in the snapshot
InsertNew(st, slug, data, ts, now) ==
    LET tagList == Get(data, "tags", <<>>)
        got == _get_or_create_tags(tagList, ts, st.sess.newTags)
        row == [id |-> 0,
                title |-> Get(data, "title", Untitled),
                slug |-> slug,
                filepath |-> data.filepath,
                source_url |-> Get(data, "source_url", ""),
                description |-> Get(data, "description", <<>>),
                servings |-> Get(data, "servings", <<>>),
                prep_time |-> Get(data, "prep_time", None),
                cook_time |-> Get(data, "cook_time", None),
                total_time |-> Get(data, "total_time", None),
                created_at |-> now,
                updated_at |-> now]
    IN [st EXCEPT
          !.sess.ins = Append(@, row),
          !.sess.newTags = IF tagList # <<>> THEN got.newTags ELSE @,
          !.sess.links = IF tagList # <<>>
                         THEN @ \cup {<<NewRef(Len(st.sess.ins) + 1), got.refs>>} ELSE @,
          !.stats.indexed = @ + 1]

\* RecipeSearchService.rebuild_index, lines 357-408: the loop over the
\* enumerated slugs; a document that fails to load is counted and skipped
RECURSIVE ProcessFiles(_, _, _, _, _, _)
ProcessFiles(slugs, i, st, fs, ts, now) ==
    IF i > Len(slugs) THEN st
    ELSE LET slug == slugs[i]
             data == load_recipe(fs, slug)
             hit == {r \in st.existing : r.slug = slug}
             next == IF ~data.ok THEN [st EXCEPT !.stats.errors = @ + 1]
                     ELSE IF hit # {}
                     THEN UpdateExisting(st, CHOOSE r \in hit : TRUE, data, ts, now)
                     ELSE InsertNew(st, slug, data, ts, now)
         IN ProcessFiles(slugs, i + 1, next, fs, ts, now)

\* rebuild_index, lines 342-354: the statistics and the snapshot the pass
\* starts with
StartPass(slugs, rs) ==
    [sess |-> EmptySession,
     stats |-> [NoStats EXCEPT !.total_files = Len(slugs)],
     existing |-> existing_recipes(rs)]

ProcessAll(slugs, fs, rs, ts, now) ==
    ProcessFiles(slugs, 1, StartPass(slugs, rs), fs, ts, now)

\* mutant of RemoveOrphans: the records are deleted and not counted
RemoveOrphans_NotCounted(st) ==
    [st EXCEPT !.sess.del = {r.id : r \in st.existing}]

\* mutant of RemoveOrphans: what is left of the snapshot stays in the index
RemoveOrphans_KeepsRecords(st) == st

\* rebuild_index, lines 410-414: what is left of the snapshot is deleted
RemoveOrphans(st) ==
    [st EXCEPT
       !.sess.del = {r.id : r \in st.existing},
       !.stats.orphaned = Cardinality(st.existing)]

\* mutant of rollback: the failed pass stays visible
rollback_KeepsPending(committed, pending) == pending

\* db.rollback() of rebuild_index: what the session wrote and did not commit
\* is discarded
rollback(committed, pending) == committed

\* rebuild_index, lines 416-425: the statistics are returned when the commit
\* went through; otherwise the session is rolled back and SearchError raised
PassOutcome(committed, stats, done, commitFails) ==
    IF done.ok /\ ~commitFails
    THEN [ok |-> TRUE, err |-> "", stats |-> stats,
          db |-> [recipes |-> done.recipes, tags |-> done.tags,
                  recipe_tags |-> done.recipe_tags]]
    ELSE [ok |-> FALSE,
          err |-> IF done.ok THEN "SearchError: database" ELSE "SearchError: integrity",
          stats |-> NoStats,
          db |-> rollback(committed,
                          [recipes |-> done.recipes, tags |-> done.tags,
                           recipe_tags |-> done.recipe_tags])]

CommitPass(rs, ts, rts, st, commitFails) ==
    PassOutcome([recipes |-> rs, tags |-> ts, recipe_tags |-> rts], st.stats,
                Commit(rs, ts, rts, st.sess), commitFails)

\* RecipeSearchService.rebuild_index: enumerate, snapshot, process, delete
\* what is left of the snapshot, commit; any failure of the commit rolls the
\* session back and raises SearchError. commitFails is a failure of the
\* database itself at the commit.
rebuild_pass(slugs, fs, rs, ts, rts, now, commitFails) ==
    CommitPass(rs, ts, rts, RemoveOrphans(ProcessAll(slugs, fs, rs, ts, now)), commitFails)

rebuild_index(fs, rs, ts, rts, now, commitFails) ==
    rebuild_pass(list_recipes(fs), fs, rs, ts, rts, now, commitFails)

-----------------------------------------------------------------------------
(* Scraper: app/scraper.py, as far as the add flow reads its result *)

URLs == {"u1", "u2", "u3"}

\* what the scraper extracts from a page: its title, and the rest of the
\* fields; nbytes is the size of the markdown rendered from it
Scrapes ==
    { [title |-> <<"A">>,
       description |-> <<"d">>, prep_time |-> 15, cook_time |-> None, total_time |-> 45,
       servings |-> <<"4">>, author |-> <<"c">>, tags |-> << <<"x">>, <<"y">> >>, nbytes |-> 900],
      [title |-> <<"b">>,
       description |-> <<>>, prep_time |-> None, cook_time |-> None, total_time |-> None,
       servings |-> <<>>, author |-> <<>>, tags |-> << <<"x">> >>, nbytes |-> 300],
      [title |-> <<"b">>,
       description |-> <<"d">>, prep_time |-> None, cook_time |-> None, total_time |-> None,
       servings |-> <<>>, author |-> <<>>, tags |-> <<>>, nbytes |-> max_recipe_size + 1] }

RecipeKeys == {"title", "slug", "source_url", "description", "ingredients", "instructions",
               "prep_time", "cook_time", "total_time", "servings", "author", "tags",
               "scraped_at"}

\* RecipeScraper._extract_recipe_data
_extract_recipe_data(url, page, now) ==
    [keys |-> RecipeKeys,
     title |-> page.title,
     slug |-> slugify(page.title),
     source_url |-> url,
     description |-> page.description,
     prep_time |-> page.prep_time,
     cook_time |-> page.cook_time,
     total_time |-> page.total_time,
     servings |-> page.servings,
     author |-> page.author,
     tags |-> page.tags,
     scraped_at |-> now,
     nbytes |-> page.nbytes]

NoInput ==
    [keys |-> {}, title |-> <<>>, slug |-> <<>>, source_url |-> "", description |-> <<>>,
     prep_time |-> None, cook_time |-> None, total_time |-> None, servings |-> <<>>,
     author |-> <<>>, tags |-> <<>>, scraped_at |-> None, nbytes |-> 0]

-----------------------------------------------------------------------------
(* State machine *)

Db == [recipes |-> recipes, tags |-> tags, recipe_tags |-> recipe_tags]

\* the record of a call: what it was given, what it returned, where it started
Call(op, ok, err, slug, url, rd, stats, scraped, saved) ==
    [op |-> op, ok |-> ok, err |-> err, slug |-> slug, url |-> url, input |-> rd,
     stats |-> stats, scraped |-> scraped, saved |-> saved,
     pre |-> [files |-> files, db |-> Db],
     prev |-> [op |-> last.op, ok |-> last.ok, slug |-> last.slug]]

\* the workers that may be inside save_recipe at the same time
Procs == {"p1", "p2"}

\* a worker outside save_recipe. fd tells where the file it has open for
\* writing is now: "temp" (still <stem>.tmp), "target" (renamed onto <stem>.md),
\* "gone" (unlinked or replaced) or "none" (nothing open)
Idle == [pc |-> "idle", rd |-> NoInput, stem |-> <<>>, doc |-> EmptyDoc, fd |-> "none",
         renamed |-> FALSE]

\* no rebuild_index pass is under way
NoPass == [pc |-> "idle", slugs |-> <<>>, existing |-> {}, before |-> {}]

Init ==
    /\ files = <<>>
    /\ recipes = {}
    /\ tags = {}
    /\ recipe_tags = {}
    /\ clock = 1
    /\ last = [op |-> "init", ok |-> TRUE, err |-> "", slug |-> <<>>, url |-> "",
               input |-> NoInput, stats |-> NoStats, scraped |-> FALSE, saved |-> FALSE,
               pre |-> [files |-> <<>>,
                        db |-> [recipes |-> {}, tags |-> {}, recipe_tags |-> {}]],
               prev |-> [op |-> "init", ok |-> TRUE, slug |-> <<>>]]
    /\ lastSave = <<>>
    /\ nOps = 0
    /\ temps = <<>>
    /\ saving = [p \in Procs |-> Idle]
    /\ rebuilding = NoPass

SetDb(db) ==
    /\ recipes' = db.recipes
    /\ tags' = db.tags
    /\ recipe_tags' = db.recipe_tags

\* the bookkeeping of lastSave, keyed by the sanitized identifier
NoteSave(rd) ==
    LET id == sanitize_filename(rd.slug)
    IN [s \in DOMAIN lastSave \cup {id} |->
            IF s = id THEN [rd |-> rd, at |-> clock] ELSE lastSave[s]]

NoteDelete(slug) ==
    [s \in DOMAIN lastSave \ {sanitize_filename(slug)} |-> lastSave[s]]

\* app/main.py add_recipe / api_add_recipe: look the URL up, scrape, save the
\* document, add it to the index
AddRecipe(url, page) ==
    /\ nOps < MaxOps
    /\ nOps' = nOps + 1
    /\ clock' = clock
    /\ IF get_recipe_by_url(recipes, url) # {}
       THEN /\ last' = Call("add_recipe", FALSE, "already exists",
                            (CHOOSE r \in get_recipe_by_url(recipes, url) : TRUE).slug,
                            url, NoInput, NoStats, FALSE, FALSE)
            /\ UNCHANGED <<files, recipes, tags, recipe_tags, lastSave, temps, saving, rebuilding>>
       ELSE LET rd == _extract_recipe_data(url, page, clock)
                sv == save_recipe(files, rd, clock)
            IN IF ~sv.ok
               THEN /\ last' = Call("add_recipe", FALSE, sv.err, rd.slug, url, rd, NoStats,
                                    TRUE, FALSE)
                    /\ UNCHANGED <<files, recipes, tags, recipe_tags, lastSave, temps, saving, rebuilding>>
               ELSE LET ad == add_recipe_to_index(recipes, tags, recipe_tags, rd, clock)
                    IN /\ files' = sv.files
                       /\ lastSave' = NoteSave(rd)
                       /\ SetDb(ad.db)
                       /\ last' = Call("add_recipe", ad.ok, ad.err, ad.slug, url, rd,
                                       NoStats, TRUE, TRUE)
                       /\ UNCHANGED <<temps, saving, rebuilding>>

\* RecipeSearchService.add_recipe_to_index called on its own, as the tests do
AddRecipeToIndex(url, page) ==
    /\ nOps < MaxOps
    /\ nOps' = nOps + 1
    /\ LET rd == _extract_recipe_data(url, page, clock)
           ad == add_recipe_to_index(recipes, tags, recipe_tags, rd, clock)
       IN /\ SetDb(ad.db)
          /\ last' = Call("add_recipe_to_index", ad.ok, ad.err, ad.slug, url, rd,
                          NoStats, FALSE, FALSE)
    /\ UNCHANGED <<files, clock, lastSave, temps, saving, rebuilding>>

\* RecipeSearchService.rebuild_index
RebuildIndex(commitFails) ==
    /\ nOps < MaxOps
    /\ nOps' = nOps + 1
    /\ LET rb == rebuild_index(files, recipes, tags, recipe_tags, clock, commitFails)
       IN /\ SetDb(rb.db)
          /\ last' = Call("rebuild_index", rb.ok, rb.err, <<>>, "", NoInput, rb.stats,
                          FALSE, FALSE)
    /\ UNCHANGED <<files, clock, lastSave, temps, saving, rebuilding>>

\* RecipeStorage.delete_recipe: the document goes, the index is not told
DeleteRecipe(slug) ==
    /\ nOps < MaxOps
    /\ nOps' = nOps + 1
    /\ LET dl == delete_recipe(files, slug)
       IN /\ files' = dl.files
          /\ lastSave' = NoteDelete(slug)
          /\ last' = Call("delete_recipe", dl.ok, "", slug, "", NoInput, NoStats,
                          FALSE, FALSE)
    /\ UNCHANGED <<recipes, tags, recipe_tags, clock, temps, saving, rebuilding>>

\* app/database.py init_db on a new database file: the index starts empty
\* while the documents stay
InitDb ==
    /\ nOps < MaxOps
    /\ nOps' = nOps + 1
    /\ recipes # {}
    /\ SetDb([recipes |-> {}, tags |-> {}, recipe_tags |-> {}])
    /\ last' = Call("init_db", TRUE, "", <<>>, "", NoInput, NoStats, FALSE, FALSE)
    /\ UNCHANGED <<files, clock, lastSave, temps, saving, rebuilding>>

\* a second passes
Tick ==
    /\ clock < MaxClock
    /\ clock' = clock + 1
    /\ UNCHANGED <<files, recipes, tags, recipe_tags, last, lastSave, nOps, temps, saving, rebuilding>>

Slugs == {<<"a">>, <<"b">>}

Next ==
    \/ \E url \in URLs, page \in Scrapes : AddRecipe(url, page)
    \/ \E commitFails \in BOOLEAN : RebuildIndex(commitFails)
    \/ \E slug \in Slugs : DeleteRecipe(slug)
    \/ InitDb
    \/ Tick

Spec == Init /\ [][Next]_vars

\* RecipeStorage.save_recipe called on its own
SaveRecipe(rd) ==
    /\ nOps < MaxOps
    /\ nOps' = nOps + 1
    /\ LET sv == save_recipe(files, rd, clock)
       IN /\ files' = sv.files
          /\ lastSave' = IF sv.ok THEN NoteSave(rd) ELSE lastSave
          /\ last' = Call("save_recipe", sv.ok, sv.err, Get(rd, "slug", <<>>), "", rd,
                          NoStats, FALSE, sv.ok)
    /\ UNCHANGED <<recipes, tags, recipe_tags, clock, temps, saving, rebuilding>>

\* RecipeStorage.load_recipe: reads, writes nothing
LoadRecipe(slug) ==
    /\ nOps < MaxOps
    /\ nOps' = nOps + 1
    /\ LET ld == load_recipe(files, slug)
       IN last' = Call("load_recipe", ld.ok, ld.err, slug, "", NoInput, NoStats, FALSE, FALSE)
    /\ UNCHANGED <<files, recipes, tags, recipe_tags, clock, lastSave, temps, saving, rebuilding>>

\* identifiers handed to the document store
RawSlugs == {<<"a">>, <<"b", "/", "a">>, <<"-">>, <<>>}

\* recipe_data handed to save_recipe: every field given, the optional fields
\* empty or zero, nothing but a slug in a document of exactly max_recipe_size
\* bytes, and a recipe that renders above the ceiling
StoreInputs ==
    UNION {
      { [keys |-> RecipeKeys, title |-> <<"A">>, slug |-> slug, source_url |-> "u1",
         description |-> <<"d">>, prep_time |-> 15, cook_time |-> 0, total_time |-> 45,
         servings |-> <<"4">>, author |-> <<"c">>, tags |-> << <<"x">>, <<"y">> >>,
         scraped_at |-> 1, nbytes |-> 900],
        [keys |-> RecipeKeys, title |-> <<"b">>, slug |-> slug, source_url |-> "u2",
         description |-> <<>>, prep_time |-> None, cook_time |-> None, total_time |-> None,
         servings |-> <<>>, author |-> <<>>, tags |-> <<>>,
         scraped_at |-> 2, nbytes |-> 300],
        [NoInput EXCEPT !.keys = IF slug = <<>> THEN {} ELSE {"slug"}, !.slug = slug,
                        !.nbytes = max_recipe_size],
        [keys |-> RecipeKeys, title |-> <<"A">>, slug |-> slug, source_url |-> "u3",
         description |-> <<"d">>, prep_time |-> 15, cook_time |-> 30, total_time |-> 45,
         servings |-> <<"4">>, author |-> <<"c">>, tags |-> << <<"x">> >>,
         scraped_at |-> 1, nbytes |-> max_recipe_size + 1] } : slug \in RawSlugs }

NextStore ==
    \/ \E rd \in StoreInputs : SaveRecipe(rd)
    \/ \E slug \in RawSlugs : DeleteRecipe(slug)
    \/ \E slug \in RawSlugs : LoadRecipe(slug)
    \/ Tick

SpecStore == Init /\ [][NextStore]_vars

-----------------------------------------------------------------------------
(* save_recipe step by step, for workers that run it at the same time *)

\* Path.with_suffix('.tmp') of "<stem>.md"; ".md" has no suffix to replace
TempName(stem) ==
    IF stem = <<>> THEN <<".", "m", "d", ".", "t", "m", "p">>
    ELSE stem \o <<".", "t", "m", "p">>

\* the names in the recipes directory
DirNames(fs, ts) == {FileName(stem) : stem \in DOMAIN fs} \cup {TempName(stem) : stem \in DOMAIN ts}

\* Path.glob("*.md")
GlobMd(names) ==
    {n \in names : Len(n) >= 3 /\ SubSeq(n, Len(n) - 2, Len(n)) = <<".", "m", "d">>}

Max(a, b) == IF a > b THEN a ELSE b

\* write() at offset 0 of a file that holds old: what is behind the new text stays
WrittenOver(old, doc) == [doc EXCEPT !.nbytes = Max(old.nbytes, doc.nbytes)]

Without(f, key) == [k \in DOMAIN f \ {key} |-> f[k]]

\* save_recipe, lines 52-66: the slug is checked, the file name and the text
\* are computed
SaveBegin(p, rd) ==
    /\ saving[p].pc = "idle"
    /\ nOps < MaxOps
    /\ nOps' = nOps + 1
    /\ IF ~TruthyText(rd, "slug")
       THEN /\ last' = Call("save_recipe", FALSE, "StorageError: slug", Get(rd, "slug", <<>>),
                            "", rd, NoStats, FALSE, FALSE)
            /\ UNCHANGED saving
       ELSE /\ saving' = [saving EXCEPT ![p] =
                            [pc |-> "open", rd |-> rd, stem |-> sanitize_filename(rd.slug),
                             doc |-> _create_markdown(rd, clock), fd |-> "none",
                             renamed |-> FALSE]]
            /\ UNCHANGED last
    /\ UNCHANGED <<files, recipes, tags, recipe_tags, clock, lastSave, temps, rebuilding>>

\* save_recipe, line 70, write_text: open(temp, "w") creates the file or
\* truncates the one that is there
SaveOpen(p) ==
    /\ saving[p].pc = "open"
    /\ temps' = [s \in DOMAIN temps \cup {saving[p].stem} |->
                    IF s = saving[p].stem THEN EmptyDoc ELSE temps[s]]
    /\ saving' = [saving EXCEPT ![p].pc = "write", ![p].fd = "temp"]
    /\ UNCHANGED <<files, recipes, tags, recipe_tags, clock, last, lastSave, nOps, rebuilding>>

\* save_recipe, line 70, write_text: the text is written to the open file,
\* wherever that file is by now, and the file is closed
SaveWrite(p) ==
    /\ saving[p].pc = "write"
    /\ temps' = IF saving[p].fd = "temp"
                THEN [temps EXCEPT ![saving[p].stem] = WrittenOver(@, saving[p].doc)]
                ELSE temps
    /\ files' = IF saving[p].fd = "target"
                THEN [files EXCEPT ![saving[p].stem] = WrittenOver(@, saving[p].doc)]
                ELSE files
    /\ saving' = [saving EXCEPT ![p].pc = "rename", ![p].fd = "none"]
    /\ UNCHANGED <<recipes, tags, recipe_tags, clock, last, lastSave, nOps, rebuilding>>

\* save_recipe, line 71: temp_filepath.replace(filepath); FileNotFoundError
\* when the temporary file is not there
SaveRename(p) ==
    /\ saving[p].pc = "rename"
    /\ LET stem == saving[p].stem IN
       IF stem \in DOMAIN temps
       THEN /\ files' = [s \in DOMAIN files \cup {stem} |->
                            IF s = stem THEN temps[stem] ELSE files[s]]
            /\ temps' = Without(temps, stem)
            /\ saving' = [q \in Procs |->
                            IF q = p THEN [saving[p] EXCEPT !.pc = "cleanup", !.renamed = TRUE]
                            ELSE IF saving[q].stem = stem /\ saving[q].fd = "temp"
                            THEN [saving[q] EXCEPT !.fd = "target"]
                            ELSE IF saving[q].stem = stem /\ saving[q].fd = "target"
                            THEN [saving[q] EXCEPT !.fd = "gone"]
                            ELSE saving[q]]
       ELSE /\ saving' = [saving EXCEPT ![p].pc = "cleanup"]
            /\ UNCHANGED <<files, temps>>
    /\ UNCHANGED <<recipes, tags, recipe_tags, clock, last, lastSave, nOps, rebuilding>>

\* the call returns the path, or raises StorageError
SaveEnd(p, ok) ==
    /\ last' = Call("save_recipe", ok, IF ok THEN "" ELSE "StorageError: failed to save",
                    saving[p].rd.slug, "", saving[p].rd, NoStats, FALSE, saving[p].renamed)
    /\ saving' = [saving EXCEPT ![p] = Idle]

\* save_recipe, lines 73-76, finally: temp_filepath.exists()
SaveCleanup(p) ==
    /\ saving[p].pc = "cleanup"
    /\ IF saving[p].stem \in DOMAIN temps
       THEN /\ saving' = [saving EXCEPT ![p].pc = "unlink"]
            /\ UNCHANGED last
       ELSE SaveEnd(p, saving[p].renamed)
    /\ UNCHANGED <<files, recipes, tags, recipe_tags, clock, lastSave, nOps, temps, rebuilding>>

\* save_recipe, line 76: temp_filepath.unlink(); FileNotFoundError when another
\* worker took the file away since exists()
SaveUnlink(p) ==
    /\ saving[p].pc = "unlink"
    /\ LET stem == saving[p].stem IN
       IF stem \in DOMAIN temps
       THEN /\ temps' = Without(temps, stem)
            /\ last' = Call("save_recipe", saving[p].renamed,
                            IF saving[p].renamed THEN "" ELSE "StorageError: failed to save",
                            saving[p].rd.slug, "", saving[p].rd, NoStats, FALSE,
                            saving[p].renamed)
            /\ saving' = [q \in Procs |->
                            IF q = p THEN Idle
                            ELSE IF saving[q].stem = stem /\ saving[q].fd = "temp"
                            THEN [saving[q] EXCEPT !.fd = "gone"]
                            ELSE saving[q]]
       ELSE /\ SaveEnd(p, FALSE)
            /\ UNCHANGED temps
    /\ UNCHANGED <<files, recipes, tags, recipe_tags, clock, lastSave, nOps, rebuilding>>

\* recipe_data of the workers: two slugs with different file names, and none
SaveInputs ==
    {rd \in StoreInputs : \/ rd.slug = <<"a">> /\ rd.nbytes \in {300, 900}
                          \/ rd.slug \in {<<"-">>, <<>>} /\ rd.nbytes = 300}

NextSave ==
    \/ \E p \in Procs, rd \in SaveInputs : SaveBegin(p, rd)
    \/ \E p \in Procs : SaveOpen(p)
    \/ \E p \in Procs : SaveWrite(p)
    \/ \E p \in Procs : SaveRename(p)
    \/ \E p \in Procs : SaveCleanup(p)
    \/ \E p \in Procs : SaveUnlink(p)

SpecSave == Init /\ [][NextSave]_vars

-----------------------------------------------------------------------------
(* The document store called with hostile identifiers *)

PathChars == {"/", "\\", ".", "-", " ", "!", "a"}

EtcPasswd ==
    <<".", ".", "/", ".", ".", "/", "e", "t", "c", "/", "p", "a", "s", "s", "w", "d">>

\* every text of at most MaxLen path characters, and '../../etc/passwd'
PathInputs == UNION {[1..n -> PathChars] : n \in 0..MaxLen} \cup {EtcPasswd}

\* one save_recipe on the empty store per identifier
NextPaths ==
    \E raw \in PathInputs :
        /\ nOps = 0
        /\ SaveRecipe([NoInput EXCEPT !.keys = {"slug", "title"}, !.slug = raw,
                                      !.title = <<"A">>, !.nbytes = 100])

SpecPaths == Init /\ [][NextPaths]_vars

\* the index repository called directly, beside the add flow
NextIndex ==
    \/ \E url \in URLs, page \in Scrapes : AddRecipe(url, page)
    \/ \E url \in URLs, page \in Scrapes : AddRecipeToIndex(url, page)
    \/ \E commitFails \in BOOLEAN : RebuildIndex(commitFails)

SpecIndex == Init /\ [][NextIndex]_vars

-----------------------------------------------------------------------------
(* RecipeSearchService.search_recipes *)

\* SQL LIKE as SQLite evaluates it: '%' stands for any run of characters and
\* '_' for any one character; every other character stands for itself
RECURSIVE Like(_, _)
Like(text, pattern) ==
    IF pattern = <<>> THEN text = <<>>
    ELSE IF pattern[1] = "%"
         THEN Like(text, Tail(pattern)) \/ (text # <<>> /\ Like(Tail(text), pattern))
         ELSE /\ text # <<>>
              /\ pattern[1] = "_" \/ pattern[1] = text[1]
              /\ Like(Tail(text), Tail(pattern))

\* column.ilike(term): lower(column) LIKE lower(term)
ilike(text, term) == Like(Lower(text), Lower(term))

\* the arguments of a search: query and tags may be left out
SearchArgs(keys, query, tagNames, limit, offset) ==
    [keys |-> keys, query |-> query, tags |-> tagNames, limit |-> limit, offset |-> offset]

\* line 175 `if query:` and line 185 `if tags:`
HasQuery(args) == "query" \in args.keys /\ args.query # <<>>
HasTags(args) == "tags" \in args.keys /\ args.tags # <<>>

\* the rows of the statement before ORDER BY: one per record, or with a tags
\* filter one per pair of a record and a tag of it named in the filter
\* (join(Recipe.tags) with Tag.name.in_(tags)); tag is 0 without the join
SearchRows(rs, ts, rts, args) ==
    LET search_term == <<"%">> \o args.query \o <<"%">>
        hit == {r \in rs : HasQuery(args) =>
                    \/ ilike(r.title, search_term)
                    \/ ilike(r.description, search_term)}
    IN IF HasTags(args)
       THEN {[rec |-> r, tag |-> t.id] :
                <<r, t>> \in {p \in hit \X ts : /\ <<p[1].id, p[2].id>> \in rts
                                                /\ p[2].name \in Range(args.tags)}}
       ELSE {[rec |-> r, tag |-> 0] : r \in hit}

\* order_by(Recipe.created_at.desc()); rows of the same second come in the
\* order of their keys
RowBefore(a, b) ==
    \/ a.rec.created_at > b.rec.created_at
    \/ /\ a.rec.created_at = b.rec.created_at
       /\ \/ a.rec.id < b.rec.id
          \/ a.rec.id = b.rec.id /\ a.tag < b.tag

RECURSIVE OrderRows(_)
OrderRows(S) ==
    IF S = {} THEN <<>>
    ELSE LET first == CHOOSE a \in S : \A b \in S \ {a} : RowBefore(a, b)
         IN <<first>> \o OrderRows(S \ {first})

\* .limit(limit).offset(offset) over the ordered rows
LimitOffset(rows, limit, offset) ==
    SubSeq(rows, offset + 1, Min(Len(rows), offset + limit))

\* .scalars().unique(): the record of each row, later repetitions dropped
RECURSIVE Unique(_)
Unique(rows) ==
    IF rows = <<>> THEN <<>>
    ELSE LET init == Unique(SubSeq(rows, 1, Len(rows) - 1))
             r == rows[Len(rows)].rec
         IN IF r \in Range(init) THEN init ELSE Append(init, r)

search_recipes(rs, ts, rts, args) ==
    Unique(LimitOffset(OrderRows(SearchRows(rs, ts, rts, args)), args.limit, args.offset))

\* the default page size of search_recipes
DefaultLimit == 50

Queries == {<<>>, <<"a">>, <<"_">>, <<"w">>}
TagFilters == {<<>>, << <<"x">> >>, << <<"y">>, <<"x">> >>, << <<"w">> >>}
Limits == {1, DefaultLimit}
Offsets == {0, 1}

\* query and tags each left out or given
SearchInputs ==
    {SearchArgs(keys, q, tn, limit, offset) :
        keys \in {{"query", "tags"}}, q \in Queries, tn \in TagFilters,
        limit \in Limits, offset \in Offsets}
    \cup {SearchArgs({"tags"}, <<>>, tn, limit, 0) : tn \in TagFilters, limit \in Limits}
    \cup {SearchArgs({"query"}, q, <<>>, limit, 0) : q \in Queries, limit \in Limits}
    \cup {SearchArgs({}, <<>>, <<>>, limit, 0) : limit \in Limits}

\* a call of search_recipes; the index is only read
SearchRecipes(args) ==
    /\ nOps < MaxOps
    /\ nOps' = nOps + 1
    /\ last' = [Call("search_recipes", TRUE, "", <<>>, "", NoInput, NoStats, FALSE, FALSE)
                   EXCEPT !.input = args,
                          !.stats = search_recipes(recipes, tags, recipe_tags, args)]
    /\ UNCHANGED <<files, recipes, tags, recipe_tags, clock, lastSave, temps, saving, rebuilding>>

NextSearch ==
    \/ \E url \in {"u1", "u2"}, page \in Scrapes : AddRecipe(url, page)
    \/ \E args \in SearchInputs : SearchRecipes(args)
    \/ Tick

SpecSearch == Init /\ [][NextSearch]_vars

-----------------------------------------------------------------------------
(* RecipeScraper._extract_tags *)

\* the longest tag kept and the number of tags kept
MaxTagLen == 50
MaxTags == 20

\* what scraper.category() and scraper.keywords() hand back: nothing (or an
\* exception), one string, or a list of strings
NoValue == [kind |-> "none", str |-> <<>>, list |-> <<>>]
StrValue(s) == [kind |-> "str", str |-> s, list |-> <<>>]
ListValue(l) == [kind |-> "list", str |-> <<>>, list |-> l]

\* _safe_extract: `result if result else default`
_safe_extract(value, default) ==
    IF \/ value.kind = "none"
       \/ value.kind = "str" /\ value.str = <<>>
       \/ value.kind = "list" /\ value.list = <<>>
    THEN default ELSE value

\* str.split(sep)
RECURSIVE Split(_, _)
Split(s, sep) ==
    LET hits == {i \in 1..Len(s) : s[i] = sep}
    IN IF hits = {} THEN <<s>>
       ELSE LET i == CHOOSE h \in hits : \A g \in hits : h <= g
            IN <<SubSeq(s, 1, i - 1)>> \o Split(SubSeq(s, i + 1, Len(s)), sep)

\* lines 219-221: a keywords string is cut at the commas
KeywordList(value) ==
    LET keywords == _safe_extract(value, ListValue(<<>>))
    IN IF keywords.kind = "str"
       THEN LET parts == Split(keywords.str, ",")
            IN [i \in 1..Len(parts) |-> Strip(parts[i], {" "})]
       ELSE keywords.list

\* lines 224-229: the category or categories, lowercased
CategoryTags(value) ==
    LET category == _safe_extract(value, NoValue)
    IN IF category.kind = "str" THEN <<Lower(category.str)>>
       ELSE [i \in 1..Len(category.list) |-> Lower(category.list[i])]

\* lines 232-233: the non-empty keywords, lowercased
KeywordTags(value) ==
    LET kept == SelectSeq(KeywordList(value), LAMBDA k : k # <<>>)
    IN [i \in 1..Len(kept) |-> Lower(kept[i])]

\* mutant of NormalizeTag: spaces are not replaced
NormalizeTag_KeepsSpaces(tag) ==
    SelectSeq(Lower(Strip(tag, {" "})), LAMBDA c : IsAlnum(c) \/ c \in {"-", "_", " "})

\* lines 238-243: strip, lowercase, drop the special characters, hyphens for
\* spaces
NormalizeTag(tag) ==
    ReplaceChar(SelectSeq(Lower(Strip(tag, {" "})),
                          LAMBDA c : IsAlnum(c) \/ c \in {"-", "_", " "}),
                " ", "-")

\* lines 236-246: the loop over tags, normalized_tags being the list so far
RECURSIVE NormalizeAll(_, _)
NormalizeAll(tagList, normalized_tags) ==
    IF tagList = <<>> THEN normalized_tags
    ELSE LET tag == NormalizeTag(Head(tagList))
         IN NormalizeAll(Tail(tagList),
                         IF /\ tag # <<>>
                            /\ Len(tag) <= MaxTagLen
                            /\ tag \notin Range(normalized_tags)
                         THEN Append(normalized_tags, tag)
                         ELSE normalized_tags)

_extract_tags(category, keywords) ==
    LET normalized_tags == NormalizeAll(CategoryTags(category) \o KeywordTags(keywords), <<>>)
    IN SubSeq(normalized_tags, 1, Min(Len(normalized_tags), MaxTags))

TagChars == {"A", "a", " ", "!", "-", "_", ","}

\* the texts over TagChars of length up to n
RawTags(n) == UNION {[1..k -> TagChars] : k \in 0..n}

Repeat(c, n) == [i \in 1..n |-> c]

ExampleKeywords ==
    << <<"C", "h", "i", "c", "k", "e", "n">>, <<"C", "U", "R", "R", "Y">>,
       <<"i", "n", "d", "i", "a", "n", " ", "f", "o", "o", "d">>,
       <<"c", "h", "i", "c", "k", "e", "n">> >>

\* more distinct tags than are kept, and a tag of the greatest length with one
\* that is longer
ManyKeywords == [i \in 1..(MaxTags + 1) |-> Repeat("a", i)]
LongKeywords == <<Repeat("a", MaxTagLen + 1), Repeat("a", MaxTagLen)>>

KeywordInputs ==
    {ListValue(<<t>>) : t \in RawTags(MaxLen - 1)}
    \cup {ListValue(<<t, u>>) : t \in RawTags(MaxLen - 3), u \in RawTags(MaxLen - 3)}
    \cup {StrValue(t) : t \in RawTags(MaxLen - 1)}
    \cup {NoValue, ListValue(ExampleKeywords), ListValue(ManyKeywords),
          ListValue(LongKeywords)}

CategoryInputs ==
    {NoValue, StrValue(<<"M", "a", " ", "a">>), ListValue(<< <<"a">>, <<"B", " ">> >>)}

\* a call of _extract_tags on what the scraper object hands back
ExtractTags(category, keywords) ==
    /\ nOps = 0
    /\ nOps' = 1
    /\ last' = [Call("_extract_tags", TRUE, "", <<>>, "", NoInput, NoStats, FALSE, FALSE)
                   EXCEPT !.input = [category |-> category, keywords |-> keywords],
                          !.stats = _extract_tags(category, keywords)]
    /\ UNCHANGED <<files, recipes, tags, recipe_tags, clock, lastSave, temps, saving, rebuilding>>

NextTags == \E category \in CategoryInputs, keywords \in KeywordInputs :
                ExtractTags(category, keywords)

SpecTags == Init /\ [][NextTags]_vars

-----------------------------------------------------------------------------
(* parse_time_string and RecipeScraper._extract_time *)

\* \d of Python's re
Digits == {"0", "1", "2", "3", "4", "5", "6", "7", "8", "9"}

DigitValue(c) == CharRank(c) - CharRank("0")

\* int(text) of a run of digits
RECURSIVE ParseInt(_)
ParseInt(ds) ==
    IF ds = <<>> THEN 0
    ELSE 10 * ParseInt(SubSeq(ds, 1, Len(ds) - 1)) + DigitValue(ds[Len(ds)])

\* the last place of the run of digits that begins at i
RunEnd(s, i) ==
    CHOOSE j \in i..Len(s) :
        /\ \A k \in i..j : s[k] \in Digits
        /\ j = Len(s) \/ s[j + 1] \notin Digits

\* the first place from i on that holds no whitespace (Len(s) + 1 if none)
SkipSpaces(s, i) ==
    LET rest == {k \in i..Len(s) : ~IsSpace(s[k])}
    IN IF rest = {} THEN Len(s) + 1 ELSE CHOOSE k \in rest : \A g \in rest : k <= g

\* (\d+)\s*(?:hour|hr|h)s? and (\d+)\s*(?:minute|min|m)s? match at i exactly
\* when the digits from i on, then any whitespace, are followed by the first
\* letter of the unit: the shortest alternative is that letter alone and the
\* final s is optional
MatchesAt(s, i, letter) ==
    /\ s[i] \in Digits
    /\ LET k == SkipSpaces(s, RunEnd(s, i) + 1)
       IN k <= Len(s) /\ s[k] = letter

\* int(re.search(pattern, s).group(1)) for the leftmost match, None without one
SearchNumber(s, letter) ==
    LET starts == {i \in 1..Len(s) : MatchesAt(s, i, letter)}
    IN IF starts = {} THEN None
       ELSE LET i == CHOOSE h \in starts : \A g \in starts : h <= g
            IN ParseInt(SubSeq(s, i, RunEnd(s, i)))

\* lines 179-189: the sum of the hours and the minutes found
TotalMinutes(s) ==
    (IF SearchNumber(s, "h") # None THEN 60 * SearchNumber(s, "h") ELSE 0)
        + (IF SearchNumber(s, "m") # None THEN SearchNumber(s, "m") ELSE 0)

\* mutant of parse_time_string: a total of zero is returned as it is
parse_time_string_KeepsZero(time_str) ==
    IF time_str = <<>> THEN None
    ELSE TotalMinutes(Strip(Lower(time_str), {" "}))

\* app/utils.py parse_time_string
parse_time_string(time_str) ==
    IF time_str = <<>> THEN None
    ELSE LET total_minutes == TotalMinutes(Strip(Lower(time_str), {" "}))
         IN IF total_minutes > 0 THEN total_minutes ELSE None

\* what scraper.prep_time(), cook_time() and total_time() do: raise, hand
\* back None, or hand back whole minutes
Raises == [kind |-> "raises", value |-> 0]
NoMinutes == [kind |-> "none", value |-> 0]
Minutes(n) == [kind |-> "int", value |-> n]

\* RecipeScraper._extract_time
_extract_time(scraper, time_type) ==
    IF time_type \notin {"prep_time", "cook_time", "total_time"} THEN None
    ELSE LET minutes == scraper[time_type]
         IN IF minutes.kind = "int" /\ minutes.value # 0 /\ minutes.value > 0
            THEN minutes.value
            ELSE None

TimeChars == {"0", "1", "2", " ", "h", "m", "M"}

OneHourThirty ==
    <<"1", " ", "h", "o", "u", "r", " ", "3", "0", " ", "m", "i", "n", "u", "t", "e", "s">>
FortyFiveMinutes == <<"4", "5", " ", "m", "i", "n", "u", "t", "e", "s">>

TimeInputs ==
    UNION {[1..n -> TimeChars] : n \in 0..MaxLen} \cup {OneHourThirty, FortyFiveMinutes}

RawMinutes == {Raises, NoMinutes, Minutes(-5), Minutes(0), Minutes(45)}

Scrapers == [prep_time : RawMinutes, cook_time : RawMinutes, total_time : RawMinutes]

TimeTypes == {"prep_time", "cook_time", "total_time", "rest_time"}

\* a call of parse_time_string
ParseTimeString(time_str) ==
    /\ nOps = 0
    /\ nOps' = 1
    /\ last' = [Call("parse_time_string", TRUE, "", <<>>, "", NoInput, NoStats, FALSE, FALSE)
                   EXCEPT !.input = time_str,
                          !.stats = parse_time_string(time_str)]
    /\ UNCHANGED <<files, recipes, tags, recipe_tags, clock, lastSave, temps, saving, rebuilding>>

\* a call of _extract_time
ExtractTime(scraper, time_type) ==
    /\ nOps = 0
    /\ nOps' = 1
    /\ last' = [Call("_extract_time", TRUE, "", <<>>, "", NoInput, NoStats, FALSE, FALSE)
                   EXCEPT !.input = [scraper |-> scraper, time_type |-> time_type],
                          !.stats = _extract_time(scraper, time_type)]
    /\ UNCHANGED <<files, recipes, tags, recipe_tags, clock, lastSave, temps, saving, rebuilding>>

NextTimes ==
    \/ \E time_str \in TimeInputs : ParseTimeString(time_str)
    \/ \E scraper \in Scrapers, time_type \in TimeTypes : ExtractTime(scraper, time_type)

SpecTimes == Init /\ [][NextTimes]_vars

-----------------------------------------------------------------------------
(* Rebuild passes over documents that change, with the directory failing *)

\* RecipeStorage.list_recipes, lines 183-190: an exception of the glob is
\* logged and the empty list returned
ListRecipes(fs, enumFails) == IF enumFails THEN <<>> ELSE list_recipes(fs)

\* RecipeSearchService.remove_recipe_from_index
remove_recipe_from_index(rs, ts, rts, slug) ==
    LET hit == get_recipe_by_slug(rs, slug)
        unchanged == [recipes |-> rs, tags |-> ts, recipe_tags |-> rts]
    IN IF hit = {} THEN [ok |-> FALSE, err |-> "", db |-> unchanged]
       ELSE LET done == Commit(rs, ts, rts, [EmptySession EXCEPT !.del = {r.id : r \in hit}])
            IN IF done.ok
               THEN [ok |-> TRUE, err |-> "",
                     db |-> [recipes |-> done.recipes, tags |-> done.tags,
                             recipe_tags |-> done.recipe_tags]]
               ELSE [ok |-> FALSE, err |-> "SearchError: failed to remove", db |-> unchanged]

\* documents written over the stored ones: another title and no tags under
\* the slug 'a', and a tag list that names 'y' twice under the slug 'b'
Rewrites ==
    { [keys |-> RecipeKeys, title |-> <<"b">>, slug |-> <<"a">>, source_url |-> "u1",
       description |-> <<>>, prep_time |-> None, cook_time |-> 30, total_time |-> None,
       servings |-> <<>>, author |-> <<>>, tags |-> <<>>,
       scraped_at |-> 1, nbytes |-> 300],
      [keys |-> RecipeKeys, title |-> <<"b">>, slug |-> <<"b">>, source_url |-> "u2",
       description |-> <<"d">>, prep_time |-> None, cook_time |-> None, total_time |-> None,
       servings |-> <<>>, author |-> <<>>, tags |-> << <<"y">>, <<"Y">> >>,
       scraped_at |-> 1, nbytes |-> 300] }

\* rebuild_index with the outcome of the enumeration and of the commit
RebuildPass(enumFails, commitFails) ==
    /\ nOps < MaxOps
    /\ nOps' = nOps + 1
    /\ LET rb == rebuild_pass(ListRecipes(files, enumFails), files, recipes, tags,
                              recipe_tags, clock, commitFails)
       IN /\ SetDb(rb.db)
          /\ last' = [Call("rebuild_index", rb.ok, rb.err, <<>>, "", NoInput, rb.stats,
                           FALSE, FALSE)
                         EXCEPT !.input = [enumFails |-> enumFails,
                                           commitFails |-> commitFails]]
    /\ UNCHANGED <<files, clock, lastSave, temps, saving, rebuilding>>

\* RecipeSearchService.remove_recipe_from_index
RemoveRecipe(slug) ==
    /\ nOps < MaxOps
    /\ nOps' = nOps + 1
    /\ LET rm == remove_recipe_from_index(recipes, tags, recipe_tags, slug)
       IN /\ SetDb(rm.db)
          /\ last' = Call("remove_recipe_from_index", rm.ok, rm.err, slug, "", NoInput,
                          NoStats, FALSE, FALSE)
    /\ UNCHANGED <<files, clock, lastSave, temps, saving, rebuilding>>

NextRebuild ==
    \/ \E url \in {"u1", "u2"}, page \in Scrapes : AddRecipe(url, page)
    \/ \E rd \in Rewrites : SaveRecipe(rd)
    \/ \E slug \in Slugs : DeleteRecipe(slug)
    \/ \E slug \in Slugs : RemoveRecipe(slug)
    \/ \E enumFails \in BOOLEAN, commitFails \in BOOLEAN : RebuildPass(enumFails, commitFails)

SpecRebuild == Init /\ [][NextRebuild]_vars

-----------------------------------------------------------------------------
(* rebuild_index step by step, with add flows that complete between its steps *)

\* rebuild_index, line 342: the documents are enumerated. before is the
\* index at that moment, kept to tell afterwards what was added since.
RebuildEnumerate ==
    /\ rebuilding.pc = "idle"
    /\ nOps < MaxOps
    /\ nOps' = nOps + 1
    /\ rebuilding' = [pc |-> "enumerated", slugs |-> list_recipes(files),
                      existing |-> {}, before |-> recipes]
    /\ UNCHANGED <<files, recipes, tags, recipe_tags, clock, last, lastSave, temps,
                   saving>>

\* rebuild_index, line 354: the snapshot of the index is loaded
RebuildSnapshot ==
    /\ rebuilding.pc = "enumerated"
    /\ rebuilding' = [rebuilding EXCEPT !.pc = "snapshot",
                                        !.existing = existing_recipes(recipes)]
    /\ UNCHANGED <<files, recipes, tags, recipe_tags, clock, last, lastSave, nOps, temps,
                   saving>>

\* rebuild_index, lines 357-425: the enumerated slugs are processed against
\* the snapshot, what is left of the snapshot is deleted, the session commits
RebuildFinish(commitFails) ==
    /\ rebuilding.pc = "snapshot"
    /\ LET st == ProcessFiles(rebuilding.slugs, 1,
                              StartPass(rebuilding.slugs, rebuilding.existing),
                              files, tags, clock)
           rb == CommitPass(recipes, tags, recipe_tags, RemoveOrphans(st), commitFails)
       IN /\ SetDb(rb.db)
          /\ last' = [Call("rebuild_index", rb.ok, rb.err, <<>>, "", NoInput, rb.stats,
                           FALSE, FALSE)
                        EXCEPT !.input = [slugs |-> rebuilding.slugs,
                                          existing |-> rebuilding.existing,
                                          before |-> rebuilding.before]]
    /\ rebuilding' = NoPass
    /\ UNCHANGED <<files, clock, lastSave, nOps, temps, saving>>

\* rebuild_index running alone: no other pass is under way and nothing
\* happens between its steps
RebuildAlone(commitFails) ==
    /\ rebuilding.pc = "idle"
    /\ RebuildIndex(commitFails)

NextRace ==
    \/ \E url \in {"u1", "u2"}, page \in Scrapes : AddRecipe(url, page)
    \/ RebuildEnumerate
    \/ RebuildSnapshot
    \/ \E commitFails \in BOOLEAN : RebuildFinish(commitFails)
    \/ \E commitFails \in BOOLEAN : RebuildAlone(commitFails)

SpecRace == Init /\ [][NextRace]_vars

-----------------------------------------------------------------------------
(* Properties *)

IndexSlugs == {r.slug : r \in recipes}

SlugsOf(rs) == {r.slug : r \in rs}

\* the enumerated identifiers whose document loads
Loadable(fs) == {slug \in Range(list_recipes(fs)) : load_recipe(fs, slug).ok}

WithoutUpdatedAt(rs) == {[r EXCEPT !.updated_at = 0] : r \in rs}

Rebuilt == last.op = "rebuild_index" /\ last.ok

\* a rebuild that returned right after a rebuild that returned: no file has
\* changed in between
SecondRebuild == Rebuilt /\ last.prev.op = "rebuild_index" /\ last.prev.ok

OneExternalDeletion ==
    /\ last.op = "rebuild_index"
    /\ last.err # "SearchError: database"
    /\ last.prev.op = "delete_recipe"
    /\ last.prev.ok
    /\ last.prev.slug \in SlugsOf(last.pre.db.recipes)
    /\ \A r \in last.pre.db.recipes :
          r.slug # last.prev.slug => r.filepath \in DOMAIN last.pre.files

\* C3 as stated: after the document of a record was deleted outside the
\* index, the next rebuild removes exactly that record, reports orphaned = 1
\* and leaves every record whose document exists.
C3_Original ==
    OneExternalDeletion =>
        /\ last.ok
        /\ get_recipe_by_slug(recipes, last.prev.slug) = {}
        /\ last.stats.orphaned = 1
        /\ \A r \in last.pre.db.recipes :
              r.slug # last.prev.slug => r.slug \in IndexSlugs

\* C4 as stated: a rebuild does not raise over a fault of one document; it
\* counts one error for each document that fails, and every other enumerated
\* document has its record committed.
C4_Original ==
    (last.op = "rebuild_index" /\ last.err # "SearchError: database") =>
        /\ last.ok
        /\ last.stats.errors = Cardinality(Range(list_recipes(files)) \ Loadable(files))
        /\ Loadable(files) \subseteq IndexSlugs

\* C5: a rebuild that fails raises SearchError and leaves the committed
\* records, tags and associations as they were before it started.
C5_RebuildAllOrNothing ==
    (last.op = "rebuild_index" /\ ~last.ok) =>
        /\ last.err \in {"SearchError: database", "SearchError: integrity"}
        /\ recipes = last.pre.db.recipes
        /\ tags = last.pre.db.tags
        /\ recipe_tags = last.pre.db.recipe_tags

\* a failed rebuild that had an update and an orphan deletion pending
C5_Witness ==
    /\ last.op = "rebuild_index"
    /\ ~last.ok
    /\ \E r \in recipes : r.slug \in Loadable(files)
    /\ \E r \in recipes : r.filepath \notin DOMAIN files

\* C6: add_recipe_to_index with a source_url that is in the index fails with
\* "already exists" and the slug of that record, and leaves index and
\* documents alone; the add flow of main rejects it before it scrapes or saves.
C6_DuplicateUrl ==
    /\ (/\ last.op = "add_recipe_to_index"
        /\ \E r \in last.pre.db.recipes : r.source_url = last.url)
         => /\ ~last.ok
            /\ last.err = "SearchError: already exists"
            /\ \E r \in last.pre.db.recipes :
                  r.source_url = last.url /\ r.slug = last.slug
            /\ Db = last.pre.db
            /\ files = last.pre.files
    /\ (/\ last.op = "add_recipe"
        /\ \E r \in last.pre.db.recipes : r.source_url = last.url)
         => /\ ~last.ok
            /\ last.err = "already exists"
            /\ \E r \in last.pre.db.recipes :
                  r.source_url = last.url /\ r.slug = last.slug
            /\ ~last.scraped
            /\ ~last.saved
            /\ Db = last.pre.db
            /\ files = last.pre.files

\* a direct add of a URL that an older record of a larger index carries
C6_Witness ==
    /\ last.op = "add_recipe_to_index"
    /\ Cardinality(last.pre.db.recipes) > 1
    /\ \E r, q \in last.pre.db.recipes : r.source_url = last.url /\ q.id > r.id

IsDigit(c) == c \in {"0", "1", "2", "3", "4", "5", "6", "7", "8", "9"}

\* an add whose URL is new and whose proposed slug is taken
SlugCollision ==
    /\ last.op \in {"add_recipe", "add_recipe_to_index"}
    /\ last.input.keys # {}
    /\ get_recipe_by_url(last.pre.db.recipes, last.url) = {}
    /\ get_recipe_by_slug(last.pre.db.recipes, last.input.slug) # {}

\* C7 as stated: an add whose slug collides succeeds, its record carries the
\* proposed slug plus a YYYYMMDDHHMMSS suffix, distinct from every slug already
\* in the index, also for several such adds within one second.
C7_Original ==
    SlugCollision =>
        /\ last.ok
        /\ Len(last.slug) = Len(last.input.slug) + 15
        /\ SubSeq(last.slug, 1, Len(last.input.slug) + 1) = last.input.slug \o <<"-">>
        /\ \A i \in Len(last.input.slug) + 2 .. Len(last.slug) : IsDigit(last.slug[i])
        /\ last.slug \notin SlugsOf(last.pre.db.recipes)
        /\ get_recipe_by_slug(recipes, last.slug) # {}
        /\ Cardinality(IndexSlugs) = Cardinality(recipes)

\* C8 as stated, its first half: an add flow or a rebuild that starts with
\* every record's filepath naming a document ends that way.
C8_Original ==
    (/\ last.op \in {"add_recipe", "rebuild_index"}
     /\ \A r \in last.pre.db.recipes : r.filepath \in DOMAIN last.pre.files)
        => \A r \in recipes : r.filepath \in DOMAIN files

\* C9 as stated, for a record that is still present: a rebuild right after an
\* add flow leaves the record of that recipe, whose document loads, with the
\* title, slug, source_url, description, servings, times and tags the add stored.
C9_Original ==
    (/\ Rebuilt
     /\ last.prev.op = "add_recipe"
     /\ last.prev.ok
     /\ load_recipe(files, last.prev.slug).ok)
        => \E q \in last.pre.db.recipes, r \in recipes :
              /\ q.slug = last.prev.slug
              /\ r.slug = q.slug
              /\ r.title = q.title
              /\ r.source_url = q.source_url
              /\ r.description = q.description
              /\ r.servings = q.servings
              /\ r.prep_time = q.prep_time
              /\ r.cook_time = q.cook_time
              /\ r.total_time = q.total_time
              /\ TagsOf(tags, recipe_tags, r.id)
                   = TagsOf(last.pre.db.tags, last.pre.db.recipe_tags, q.id)

\* what load_recipe(slug) returns for a document save_recipe wrote from rd at
\* time at
LoadsAs(loaded, slug, rd, at) ==
    /\ loaded.ok
    /\ loaded.slug = slug
    /\ loaded.filepath = get_recipe_filepath(slug)
    /\ "title" \in rd.keys => loaded.title = rd.title
    /\ "source_url" \in rd.keys => loaded.source_url = rd.source_url
    /\ TruthyInt(rd, "scraped_at") => loaded.created_at = rd.scraped_at
    /\ loaded.updated_at = at
    /\ \A key \in {"prep_time", "cook_time", "total_time"} :
          /\ key \in loaded.keys <=> TruthyInt(rd, key)
          /\ key \in loaded.keys => loaded[key] = rd[key]
    /\ \A key \in {"servings", "author", "tags"} :
          /\ key \in loaded.keys <=> TruthyText(rd, key)
          /\ key \in loaded.keys => loaded[key] = rd[key]

\* the document a save wrote is larger than load_recipe accepts
TooLarge(saved) == _create_markdown(saved.rd, saved.at).nbytes > max_recipe_size

\* C10 as stated: after any saves and deletes, load_recipe of an identifier
\* that was saved and not deleted since returns the header of the most recent
\* save to it: slug, title, source_url, created_at = scraped_at, and the
\* optional fields the input gave, and nothing of an earlier save.
C10_Original ==
    \A slug \in RawSlugs :
        sanitize_filename(slug) \in DOMAIN lastSave =>
            LET saved == lastSave[sanitize_filename(slug)]
            IN LoadsAs(load_recipe(files, slug), slug, saved.rd, saved.at)

\* C10 amended: the same, for a most recent save whose document is at most
\* max_recipe_size bytes; a larger one was saved all the same and load_recipe
\* fails on it; an identifier never saved, or deleted since, is not found.
C10_SaveLoadRoundTrip ==
    \A slug \in RawSlugs :
        LET id == sanitize_filename(slug)
            loaded == load_recipe(files, slug)
        IN IF id \notin DOMAIN lastSave
           THEN ~loaded.ok /\ loaded.err = "StorageError: not found"
           ELSE IF TooLarge(lastSave[id])
           THEN ~loaded.ok /\ loaded.err = "StorageError: too large"
           ELSE LoadsAs(loaded, slug, lastSave[id].rd, lastSave[id].at)

\* a save that replaced a document written from another record, and loads
C10_Witness ==
    /\ last.op = "save_recipe"
    /\ last.ok
    /\ sanitize_filename(last.slug) \in DOMAIN last.pre.files
    /\ last.pre.files[sanitize_filename(last.slug)].header
          # files[sanitize_filename(last.slug)].header
    /\ load_recipe(files, last.slug).ok

\* the documents save_recipe can have been handed for the file <stem>.md
HandedTo(stem) ==
    {_create_markdown(rd, t) : rd \in {r \in SaveInputs : TruthyText(r, "slug")
                                                          /\ sanitize_filename(r.slug) = stem},
                               t \in 1..MaxClock}

\* C11 as stated: while workers are inside save_recipe, also two of them on
\* one slug, <slug>.md is absent or holds the complete text handed to one of
\* the saves, and no temporary file is among the files list_recipes globs.
C11_Original ==
    /\ \A stem \in DOMAIN files : files[stem] \in HandedTo(stem)
    /\ GlobMd(DirNames(files, temps)) = {FileName(stem) : stem \in DOMAIN files}

\* C12: save_recipe of a record whose slug is missing or empty fails with a
\* StorageError about the slug and writes nothing: the documents are what
\* they were and no temporary file exists.
C12_NoSlugNoWrite ==
    (last.op = "save_recipe" /\ ~TruthyText(last.input, "slug")) =>
        /\ ~last.ok
        /\ last.err = "StorageError: slug"
        /\ files = last.pre.files
        /\ temps = <<>>

\* a save without slug, refused while documents exist
C12_Witness ==
    /\ last.op = "save_recipe"
    /\ "slug" \notin last.input.keys
    /\ ~last.ok
    /\ DOMAIN files # {}

\* C13: load_recipe fails with 'not found' exactly when there is no document
\* for the sanitized identifier, with 'too large' exactly when the file has
\* more than max_recipe_size bytes, succeeds otherwise (also at exactly
\* max_recipe_size), and leaves the documents as they were.
C13_LoadErrors ==
    last.op = "load_recipe" =>
        LET id == sanitize_filename(last.slug) IN
        /\ last.err = "StorageError: not found" <=> id \notin DOMAIN files
        /\ last.err = "StorageError: too large" <=>
              (id \in DOMAIN files /\ files[id].nbytes > max_recipe_size)
        /\ last.ok <=> (id \in DOMAIN files /\ files[id].nbytes <= max_recipe_size)
        /\ ~last.ok => last.err \in {"StorageError: not found", "StorageError: too large"}
        /\ files = last.pre.files
        /\ temps = <<>>

\* a document of exactly max_recipe_size bytes was loaded
C13_Witness ==
    /\ last.op = "load_recipe"
    /\ last.ok
    /\ files[sanitize_filename(last.slug)].nbytes = max_recipe_size

\* the identifiers that were saved and not deleted since, in sanitized form
StoredKeys == DOMAIN lastSave

\* C14 as stated: after any saves and deletes, recipe_exists tells whether the
\* sanitized identifier is stored, list_recipes returns exactly the stored
\* identifiers, each once and in ascending order, and delete_recipe returns
\* true and removes that one document when it was stored, and returns false
\* and changes nothing when it was not.
C14_Original ==
    /\ \A raw \in RawSlugs :
          recipe_exists(files, raw) <=> sanitize_filename(raw) \in StoredKeys
    /\ Range(list_recipes(files)) = StoredKeys
    /\ Len(list_recipes(files)) = Cardinality(StoredKeys)
    /\ \A i, j \in 1..Len(list_recipes(files)) :
          i < j => LexLess(list_recipes(files)[i], list_recipes(files)[j])
    /\ last.op = "delete_recipe" =>
          LET id == sanitize_filename(last.slug) IN
          /\ last.ok <=> id \in DOMAIN last.pre.files
          /\ DOMAIN files = DOMAIN last.pre.files \ {id}
          /\ \A stem \in DOMAIN files : files[stem] = last.pre.files[stem]

HasSeparator(name) == \E i \in 1..Len(name) : name[i] \in {"/", "\\"}

\* C15: for every identifier, sanitize_filename returns a name without '/'
\* and '\' that is neither '.' nor '..' ('passwd' for '../../etc/passwd'), and
\* save_recipe, load_recipe, delete_recipe, recipe_exists and
\* get_recipe_filepath all use the file of that name, a direct child of the
\* recipes directory.
C15_PathTraversal ==
    last.op = "save_recipe" =>
        LET raw == last.slug
            name == sanitize_filename(raw)
        IN /\ ~HasSeparator(name)
           /\ name \notin {<<".">>, <<".", ".">>}
           /\ raw = EtcPasswd => name = <<"p", "a", "s", "s", "w", "d">>
           /\ DOMAIN files \subseteq DOMAIN last.pre.files \cup {name}
           /\ get_recipe_filepath(raw) = name
           /\ last.ok =>
                 /\ name \in DOMAIN files
                 /\ recipe_exists(files, raw)
                 /\ load_recipe(files, raw).ok
                 /\ delete_recipe(files, raw).ok
                 /\ name \notin DOMAIN delete_recipe(files, raw).files

\* a save under an identifier made of dots and separators only
C15_Witness ==
    /\ last.op = "save_recipe"
    /\ last.ok
    /\ last.slug = <<".", ".", "/", ".">>

\* text contains term, letter case ignored
ContainsNoCase(text, term) ==
    \E i \in 1..(Len(text) - Len(term) + 1) :
        SubSeq(Lower(text), i, i + Len(term) - 1) = Lower(term)

\* the records a search is said to return
Matching(rs, ts, rts, args) ==
    {r \in rs :
        /\ HasQuery(args) =>
              \/ ContainsNoCase(r.title, args.query)
              \/ ContainsNoCase(r.description, args.query)
        /\ HasTags(args) => TagsOf(ts, rts, r.id) \cap Range(args.tags) # {}}

\* C16: a search with the default limit from offset 0 returns exactly the
\* records that (with a non-empty query) contain the query in title or
\* description, letter case ignored, and (with a non-empty tags filter) carry
\* at least one of the given tag names; it returns the empty list when no
\* record does, and every record when neither filter is given.
C16_Original ==
    (/\ last.op = "search_recipes"
     /\ last.input.limit = DefaultLimit
     /\ last.input.offset = 0)
        => Range(last.stats) = Matching(recipes, tags, recipe_tags, last.input)

\* the pages a client reads one after the other, at offsets offset,
\* offset + limit, ... until a page comes back empty
RECURSIVE PagesFrom(_, _, _, _, _)
PagesFrom(rs, ts, rts, args, offset) ==
    LET page == search_recipes(rs, ts, rts, [args EXCEPT !.offset = offset])
    IN IF page = <<>> THEN <<>>
       ELSE page \o PagesFrom(rs, ts, rts, args, offset + args.limit)

Descending(result) ==
    \A i, j \in 1..Len(result) : i < j => result[i].created_at >= result[j].created_at

\* C17: a page comes in descending created_at order and holds at most limit
\* distinct records, and the pages at offsets 0, limit, 2*limit, ... together
\* list every record the statement selects exactly once, also under a tags
\* filter of several names with a record that carries more than one of them.
C17_Original ==
    last.op = "search_recipes" =>
        LET args == last.input
            all == PagesFrom(recipes, tags, recipe_tags, args, 0)
        IN /\ Descending(last.stats)
           /\ Len(last.stats) <= args.limit
           /\ NoDuplicates(last.stats)
           /\ NoDuplicates(all)
           /\ Range(all) = {row.rec : row \in SearchRows(recipes, tags, recipe_tags, args)}

\* the raw strings handed to the normalization, categories first
RawStrings(input) ==
    (IF input.category.kind = "str" THEN <<input.category.str>> ELSE input.category.list)
        \o (IF input.keywords.kind = "str" THEN Split(input.keywords.str, ",")
            ELSE input.keywords.list)

\* the place of the first raw string that normalizes to tag (0 if there is none)
FirstSeen(raw, tag) ==
    LET at == {i \in 1..Len(raw) : NormalizeTag(raw[i]) = tag}
    IN IF at = {} THEN 0 ELSE CHOOSE i \in at : \A j \in at : i <= j

\* C18: the tag list of every category and keyword input holds only lowercase
\* tokens of alphanumerics, '-' and '_' of length 1..50, without duplicates, in
\* the order in which they are first seen, at most 20 of them, none left out
\* while there is room, and ['Chicken','CURRY','indian food','chicken'] gives
\* ['chicken','curry','indian-food'].
C18_TagNormalization ==
    last.op = "_extract_tags" =>
        LET out == last.stats
            raw == RawStrings(last.input)
        IN /\ \A i \in 1..Len(out) :
                 /\ Len(out[i]) \in 1..MaxTagLen
                 /\ \A k \in 1..Len(out[i]) :
                        /\ IsAlnum(out[i][k]) \/ out[i][k] \in {"-", "_"}
                        /\ out[i][k] \notin {"A", "B", "C", "H", "M", "R", "U", "Y"}
                 /\ FirstSeen(raw, out[i]) > 0
           /\ NoDuplicates(out)
           /\ \A i, j \in 1..Len(out) :
                 i < j => FirstSeen(raw, out[i]) < FirstSeen(raw, out[j])
           /\ Len(out) <= MaxTags
           /\ Len(out) < MaxTags =>
                 \A i \in 1..Len(raw) :
                     LET tag == NormalizeTag(raw[i])
                     IN tag # <<>> /\ Len(tag) <= MaxTagLen => tag \in Range(out)
           /\ (last.input.category = NoValue
               /\ last.input.keywords = ListValue(ExampleKeywords)) =>
                 out = << <<"c", "h", "i", "c", "k", "e", "n">>, <<"c", "u", "r", "r", "y">>,
                          <<"i", "n", "d", "i", "a", "n", "-", "f", "o", "o", "d">> >>

\* the example, whose last keyword repeats the first
C18_Witness ==
    /\ last.op = "_extract_tags"
    /\ last.input.category = NoValue
    /\ last.input.keywords = ListValue(ExampleKeywords)
    /\ Len(last.stats) = 3

\* C19: parse_time_string returns 60 * hours + minutes for a text in which
\* the hour or the minute pattern is found (90 for '1 hour 30 minutes', 45 for
\* '45 minutes'), and None, never 0, for an empty text, a text without a
\* match and a total of zero; _extract_time returns the raw minutes if they
\* are a positive number and None otherwise.
C19_TimeNormalization ==
    /\ last.op = "parse_time_string" =>
          LET s == Strip(Lower(last.input), {" "})
              hours == SearchNumber(s, "h")
              minutes == SearchNumber(s, "m")
              out == last.stats
          IN /\ out # 0
             /\ out = None \/ out > 0
             /\ last.input = <<>> => out = None
             /\ hours = None /\ minutes = None => out = None
             /\ hours # None /\ minutes # None =>
                    out = IF 60 * hours + minutes = 0 THEN None ELSE 60 * hours + minutes
             /\ hours # None /\ minutes = None =>
                    out = IF hours = 0 THEN None ELSE 60 * hours
             /\ hours = None /\ minutes # None =>
                    out = IF minutes = 0 THEN None ELSE minutes
             /\ last.input = OneHourThirty => out = 90
             /\ last.input = FortyFiveMinutes => out = 45
    /\ last.op = "_extract_time" =>
          LET known == last.input.time_type \in {"prep_time", "cook_time", "total_time"}
              out == last.stats
          IN /\ out # 0
             /\ ~known => out = None
             /\ known =>
                   LET raw == last.input.scraper[last.input.time_type]
                   IN out = IF raw.kind = "int" /\ raw.value > 0 THEN raw.value ELSE None

\* a text of zero hours and zero minutes
C19_Witness ==
    /\ last.op = "parse_time_string"
    /\ last.input = <<"0", "h", "0", "m">>
    /\ last.stats = None

\* the records of the index before the pass whose document is in the store
Backed(call) ==
    {r \in call.pre.db.recipes : recipe_exists(call.pre.files, r.slug)}

\* C20: a rebuild that commits deletes a record only if the store holds no
\* document of its slug: every record whose document exists, loadable or not,
\* is still in the index after the pass, and orphaned counts exactly the
\* records without a document.
C20_Original ==
    (last.op = "rebuild_index" /\ last.ok) =>
        /\ \A r \in Backed(last) : \E kept \in recipes : kept.id = r.id
        /\ last.stats.orphaned = Cardinality(last.pre.db.recipes \ Backed(last))

\* C21: a rebuild during which the enumeration of the document directory
\* fails raises an error and leaves the index as it was before the pass.
C21_Original ==
    (last.op = "rebuild_index" /\ last.input.enumFails) =>
        /\ ~last.ok
        /\ Db = last.pre.db

\* the records of the snapshot whose document the pass enumerates and loads
Processed(call) ==
    {r \in call.pre.db.recipes :
        /\ ~call.input.enumFails
        /\ r.slug \in Range(list_recipes(call.pre.files))
        /\ load_recipe(call.pre.files, r.slug).ok}

\* the tag names a document lists, as the index stores them
DocTags(doc) == {Strip(Lower(doc.header.tags[i]), {" "}) : i \in 1..Len(doc.header.tags)}

\* record q carries what document doc says
Mirrors(q, doc) ==
    /\ q.title = doc.header.title
    /\ q.description = doc.description
    /\ q.servings = doc.header.servings
    /\ q.prep_time = doc.header.prep_time
    /\ q.cook_time = doc.header.cook_time
    /\ q.total_time = doc.header.total_time
    /\ TagsOf(tags, recipe_tags, q.id) = DocTags(doc)

\* C22: after a rebuild that commits, every record whose document was
\* processed keeps its id, slug and created_at and carries the document's
\* title, description, servings and times, and its tag set is the document's
\* tag list, empty when the document lists no tags.
C22_Original ==
    (last.op = "rebuild_index" /\ last.ok) =>
        \A r \in Processed(last) :
            \E q \in recipes :
                /\ q.id = r.id
                /\ q.slug = r.slug
                /\ q.created_at = r.created_at
                /\ Mirrors(q, files[sanitize_filename(r.slug)])

\* the tag rows are well formed: one row per name, every name lowercase,
\* stripped and not empty
TagsWellFormed(ts) ==
    /\ \A t, u \in ts : t.name = u.name => t.id = u.id
    /\ \A t \in ts :
          /\ t.name # <<>>
          /\ t.name = Strip(Lower(t.name), {" "})

\* the tag names the documents of a pass reference that the index did not
\* hold before, each with the number of documents naming it
NewNames(call) ==
    UNION {DocTags(call.pre.files[s]) : s \in Loadable(call.pre.files)}
        \ {t.name : t \in call.pre.db.tags}

\* C23: after an add to the index or a rebuild no two Tag rows share a name,
\* every name is lowercase, stripped and not empty, and every tag name a
\* processed recipe references is linked to one Tag row; the operation
\* succeeds with one Tag row also when a pass processes two documents naming
\* a tag that is not in the index yet, and when a tag list holds one name
\* twice after lowercasing.
C23_Original ==
    (/\ last.op \in {"add_recipe", "rebuild_index"}
     /\ last.err \notin {"already exists", "SearchError: database"}
     /\ last.op = "add_recipe" => last.saved) =>
        /\ last.ok
        /\ TagsWellFormed(tags)
        /\ \A p \in recipe_tags : \E t \in tags : t.id = p[2]
        /\ last.op = "rebuild_index" /\ ~last.input.enumFails =>
              \A name \in NewNames(last) :
                  Cardinality({t \in tags : t.name = name}) = 1

\* no worker is inside save_recipe
AllReturned == \A p \in Procs : saving[p].pc = "idle"

\* C25: under every interleaving of the steps of concurrent saves, every
\* save_recipe that was given a slug returns the path without raising, and
\* once all of them have returned every file holds the complete text of one
\* of the saves and no temporary file is left.
C25_Original ==
    /\ (last.op = "save_recipe" /\ TruthyText(last.input, "slug")) => last.ok
    /\ AllReturned =>
          /\ temps = <<>>
          /\ \A stem \in DOMAIN files : files[stem] \in HandedTo(stem)

\* the records a call deleted
Deleted(call) == {r \in call.pre.db.recipes : \A q \in recipes : q.id # r.id}

\* the tags record r of the snapshot is left with by a call that does not
\* delete it: those it had, or those its document lists when a rebuild
\* reassigns them
TagsAfter(call, r) ==
    LET stem == sanitize_filename(r.slug)
    IN IF /\ call.op = "rebuild_index"
          /\ stem \in DOMAIN call.pre.files
          /\ call.pre.files[stem].header.tags # <<>>
       THEN DocTags(call.pre.files[stem])
       ELSE TagsOf(call.pre.db.tags, call.pre.db.recipe_tags, r.id)

\* C24: remove_recipe_from_index and the orphan deletion of a rebuild delete
\* the record and its own recipe_tags rows only: no Tag row is deleted and
\* every other record has the tags it is due, also when it shared a tag with
\* a deleted record.
C24_Original ==
    (/\ last.op \in {"remove_recipe_from_index", "rebuild_index"}
     /\ last.ok
     /\ Deleted(last) # {}) =>
        /\ last.pre.db.tags \subseteq tags
        /\ \A r \in last.pre.db.recipes \ Deleted(last) :
              TagsOf(tags, recipe_tags, r.id) = TagsAfter(last, r)
        /\ last.op = "remove_recipe_from_index" =>
              /\ Cardinality(Deleted(last)) = 1
              /\ recipe_tags = {p \in last.pre.db.recipe_tags :
                                   \A r \in Deleted(last) : p[1] # r.id}

\* C28: an add flow whose slug is the slug of a stored recipe with another
\* source_url leaves every stored document as it was, stores the new recipe
\* in a document of its own under the slug of its index record, and
\* load_recipe of the two index slugs returns each recipe's own title and
\* source_url.
C28_Original ==
    (SlugCollision /\ last.op = "add_recipe" /\ last.ok) =>
        /\ \A stem \in DOMAIN last.pre.files :
              stem \in DOMAIN files /\ files[stem] = last.pre.files[stem]
        /\ sanitize_filename(last.slug) \notin DOMAIN last.pre.files
        /\ \A r \in recipes :
              r.slug \in {last.slug, last.input.slug} =>
                  LET ld == load_recipe(files, r.slug)
                  IN ld.ok => ld.title = r.title /\ ld.source_url = r.source_url
        /\ load_recipe(files, last.slug).ok

\* C30: sanitize_filename applied twice gives what it gives applied once, and
\* after a save_recipe that succeeded, every identifier list_recipes returns
\* makes recipe_exists true and load_recipe read the file that was written.
C30_Original ==
    last.op = "save_recipe" =>
        /\ sanitize_filename(sanitize_filename(last.slug)) = sanitize_filename(last.slug)
        /\ last.ok =>
              \A i \in 1..Len(list_recipes(files)) :
                  LET id == list_recipes(files)[i]
                  IN /\ recipe_exists(files, id)
                     /\ load_recipe(files, id).ok
                     /\ load_recipe(files, id).filepath = sanitize_filename(last.slug)

\* C29: for every rebuild that returns, total_files = indexed + updated +
\* errors, orphaned is the number of records the pass deleted, and the number
\* of records afterwards is the number before plus indexed minus orphaned.
C29_StatsConsistent ==
    (last.op = "rebuild_index" /\ last.ok) =>
        /\ last.stats.total_files
              = last.stats.indexed + last.stats.updated + last.stats.errors
        /\ last.stats.orphaned = Cardinality(Deleted(last))
        /\ Cardinality(recipes)
              = Cardinality(last.pre.db.recipes) + last.stats.indexed - last.stats.orphaned

\* a pass that indexed a document, failed on another and deleted a record
C29_Witness ==
    /\ last.op = "rebuild_index"
    /\ last.ok
    /\ last.stats.indexed > 0
    /\ last.stats.errors > 0
    /\ last.stats.orphaned > 0

\* a pass whose steps other calls could run between
Stepwise(call) == call.op = "rebuild_index" /\ "existing" \in DOMAIN call.input

\* the records in the snapshot of a pass that were committed after its
\* enumeration, under a slug the enumeration did not return
AddedBetween(call) ==
    {r \in call.input.existing :
        /\ \A b \in call.input.before : b.id # r.id
        /\ r.slug \notin Range(call.input.slugs)}

\* C26: whenever an add flow commits after rebuild_index has enumerated the
\* documents and before it has loaded the snapshot, and the pass commits, the
\* pass deletes the added record and counts it as an orphan, so the index
\* holds no record under that slug afterwards. The witness shows that this
\* happens while the document of the added record is on disk and loads.
C26_AddedRecordDeleted ==
    (Stepwise(last) /\ last.ok) =>
        /\ \A r \in AddedBetween(last) :
              /\ \A q \in recipes : q.id # r.id
              /\ r.slug \notin IndexSlugs
        /\ last.stats.orphaned >= Cardinality(AddedBetween(last))

\* a committed pass that deleted a record added between its enumeration and
\* its snapshot, although the document of that record exists and loads
C26_Witness ==
    /\ Stepwise(last)
    /\ last.ok
    /\ \E r \in AddedBetween(last) :
          /\ last.prev.op = "add_recipe"
          /\ last.prev.ok
          /\ last.prev.slug = r.slug
          /\ recipe_exists(files, r.slug)
          /\ load_recipe(files, r.slug).ok
          /\ r.slug \notin IndexSlugs

\* C27: once every add flow and every rebuild_index pass has finished, a
\* further rebuild_index that runs alone, with the database accepting the
\* commit, succeeds and leaves the slugs of the index equal to the
\* identifiers of the documents on disk.
C27_Original ==
    (/\ last.op = "rebuild_index"
     /\ ~Stepwise(last)
     /\ rebuilding.pc = "idle"
     /\ last.err # "SearchError: database") =>
        /\ last.ok
        /\ IndexSlugs = Range(list_recipes(files))

====
